---- MODULE Spec2Model ----
(***************************************************************************)
(* Model of rolling-notes (src/src/main.rs): the JotHistory timeline, its  *)
(* rollover, lookup, update and filter operations, and the runs of main     *)
(* that load the history from .history.json, run one command and save it.  *)
(*                                                                         *)
(* Vec<T> is a TLA+ sequence; a Vec index i (usize, 0-based) addresses     *)
(* element i + 1 of the sequence.  NaiveDate is a day number.              *)
(***************************************************************************)
EXTENDS Integers, Sequences, FiniteSets

VARIABLES
    sets,       \* JotHistory.sets : Vec<JotSet>
    panicked,   \* TRUE once an unwrap() or an index expression has panicked
    op,         \* the last call on the history: its name, arguments and result
    file        \* .history.json: absent, or a file with the bytes it holds

vars == <<sets, panicked, op, file>>

----------------------------------------------------------------------------
(* Bounds of the model *)

\* the histories explored hold at most MaxSets sets ...
MaxSets == 3
\* ... and at most MaxSize sets and jots together
MaxSize == 5
\* view filters a set of at most MaxFilterJots jots ...
MaxFilterJots == 3
\* ... by at most MaxFilterStates --states arguments
MaxFilterStates == 2

\* the days the clock reads
Dates == {1, 2}
\* the days given to view --date: before, among and after those
DateArgs == {0, 1, 2, 3}
\* the texts of the jots
Values == {"a", "b"}

----------------------------------------------------------------------------
(* Data model *)

JotState == {"Completed", "Removed", "InProgess", "Failed", "NotStarted"}

Jot == [value : Values, state : JotState]

\* the jots insert() and set_jot() are called with: one text, in every state
JotArgs == {j \in Jot : j.value = "a"}

\* a jot of another text, in the state prompt_state() defaults to
OtherJot == [value |-> "b", state |-> "NotStarted"]

\* the jots of the sets set() is called with, and of the sets a file holds
\* when view looks a date up in it
ArgJots == {<<>>, <<OtherJot>>}

\* the jots of the set a file holds when view filters it
FileJots == JotArgs \cup {OtherJot}

InProgress(start) == [tag |-> "InProgress", start |-> start]
Complete(start, end) == [tag |-> "Complete", start |-> start, end |-> end]

DateInterval ==
    {InProgress(s) : s \in Dates} \cup {Complete(s, e) : s \in Dates, e \in Dates}

JotSet(jots, interval) == [jots |-> jots, interval |-> interval]

\* the sets set() is called with, and the sets of a file view --date reads
ArgSets == {JotSet(js, iv) : js \in ArgJots, iv \in DateInterval}

\* Option<T>
None == [tag |-> "None"]
Some(x) == [tag |-> "Some", val |-> x]

\* Result<T, E>
Ok(x) == [tag |-> "Ok", val |-> x]
Err(e) == [tag |-> "Err", err |-> e]

\* the sequences over S of length at most n
SeqUpTo(S, n) == UNION {[1..k -> S] : k \in 0..n}

Last(s) == s[Len(s)]
Front(s) == SubSeq(s, 1, Len(s) - 1)

----------------------------------------------------------------------------
(* Jot and JotSet *)

\* is_terminal with the Failed arm left out of the first match arm
is_terminal_ForgetsFailed(jot) ==
    CASE jot.state \in {"Completed", "Removed"} -> TRUE
      [] jot.state \in {"InProgess", "NotStarted", "Failed"} -> FALSE

is_terminal(jot) ==
    CASE jot.state \in {"Completed", "Removed", "Failed"} -> TRUE
      [] jot.state \in {"InProgess", "NotStarted"} -> FALSE

NotTerminal(jot) == ~is_terminal(jot)

get_non_terminal_jots(set) == SelectSeq(set.jots, NotTerminal)

\* a membership test that looks at the first element only
contains_FirstOnly(vec, x) == Len(vec) > 0 /\ vec[1] = x

\* Vec::contains
contains(vec, x) == \E i \in 1..Len(vec) : vec[i] = x

\* filter_by_states without the states.is_empty() case
filter_by_states_NoEmptyCase(set, states) ==
    LET Keep(j) == contains(states, j.state)
    IN  JotSet(SelectSeq(set.jots, Keep), set.interval)

filter_by_states(set, states) ==
    IF Len(states) = 0
    THEN set
    ELSE LET Keep(j) == contains(states, j.state)
         IN  JotSet(SelectSeq(set.jots, Keep), set.interval)

\* JotSet::default(), the clock reading `today`
DefaultJotSet(today) == JotSet(<<>>, InProgress(today))

----------------------------------------------------------------------------
(* JotHistory *)

\* a closure that takes the end of a Complete interval as outside it
IntervalMatches_EndExclusive(interval, date) ==
    CASE interval.tag = "InProgress" -> date >= interval.start
      [] interval.tag = "Complete" -> date >= interval.start /\ date < interval.end

\* the closure of get_with_date
IntervalMatches(interval, date) ==
    CASE interval.tag = "InProgress" -> date >= interval.start
      [] interval.tag = "Complete" -> date >= interval.start /\ date <= interval.end

\* Iterator::find over self.sets, from position i on
RECURSIVE FindFrom(_, _, _)
FindFrom(s, date, i) ==
    IF i > Len(s) THEN None
    ELSE IF IntervalMatches(s[i].interval, date) THEN Some(s[i])
    ELSE FindFrom(s, date, i + 1)

\* a scan from the last set down (rfind instead of find)
RECURSIVE FindBack(_, _, _)
FindBack(s, date, i) ==
    IF i < 1 THEN None
    ELSE IF IntervalMatches(s[i].interval, date) THEN Some(s[i])
    ELSE FindBack(s, date, i - 1)

get_with_date_Last(s, date) == FindBack(s, date, Len(s))

get_with_date(s, date) == FindFrom(s, date, 1)

\* self.sets.last().unwrap().clone()
get(s) == Last(s)

get_date_intervals(s) == [i \in 1..Len(s) |-> s[i].interval]

\* roll() leaving the interval of the set it archives as it was
ClosedInterval_StaysOpen(interval, now) == interval

\* roll() stamping `now` as the end of an interval that is Complete already
ClosedInterval_Restamps(interval, now) == Complete(interval.start, now)

\* roll() closing an interval with start and end the wrong way round
ClosedInterval_Swapped(interval, now) ==
    CASE interval.tag = "Complete" -> Complete(interval.start, interval.end)
      [] interval.tag = "InProgress" -> Complete(now, interval.start)

\* the interval roll() gives the set it closes
ClosedInterval(interval, now) ==
    CASE interval.tag = "Complete" -> Complete(interval.start, interval.end)
      [] interval.tag = "InProgress" -> Complete(interval.start, now)

\* roll() doing nothing when the current set is Complete already
RolledSets_SkipsClosed(s, now) ==
    LET last_jotset == Last(s)
        rolled_jots == get_non_terminal_jots(last_jotset)
        closed == JotSet(last_jotset.jots, ClosedInterval(last_jotset.interval, now))
        new_jotset == JotSet(rolled_jots, InProgress(now))
    IN  IF last_jotset.interval.tag = "Complete"
        THEN s
        ELSE Append(Append(Front(s), closed), new_jotset)

\* roll() opening the new set on the day the old one started
RolledSets_KeepsStart(s, now) ==
    LET last_jotset == Last(s)
        rolled_jots == get_non_terminal_jots(last_jotset)
        closed == JotSet(last_jotset.jots, ClosedInterval(last_jotset.interval, now))
        new_jotset == JotSet(rolled_jots, InProgress(last_jotset.interval.start))
    IN  Append(Append(Front(s), closed), new_jotset)

\* the sets roll() leaves, the clock reading `now`
RolledSets(s, now) ==
    LET last_jotset == Last(s)
        rolled_jots == get_non_terminal_jots(last_jotset)
        closed == JotSet(last_jotset.jots, ClosedInterval(last_jotset.interval, now))
        new_jotset == JotSet(rolled_jots, InProgress(now))
    IN  Append(Append(Front(s), closed), new_jotset)

\* insert() putting the jot first instead of last
InsertedSets_Prepends(s, jot) ==
    [s EXCEPT ![Len(s)].jots = <<jot>> \o @]

\* the sets insert() leaves
InsertedSets(s, jot) ==
    [s EXCEPT ![Len(s)].jots = Append(@, jot)]

\* set_jot() counting the index from the end of the jots
ReplacedSets_FromEnd(s, jot, index) ==
    LET jot_set == Last(s)
        updated == JotSet([jot_set.jots EXCEPT ![Len(jot_set.jots) - index] = jot],
                          jot_set.interval)
    IN  Append(Front(s), updated)

\* the sets set_jot() leaves when the index is in bounds
ReplacedSets(s, jot, index) ==
    LET jot_set == Last(s)
        updated == JotSet([jot_set.jots EXCEPT ![index + 1] = jot], jot_set.interval)
    IN  Append(Front(s), updated)

\* set() pushing the set without the pop() before it
OverwrittenSets_NoPop(s, set) == Append(s, set)

\* the sets set() leaves: pop() of an empty Vec is None and drops nothing
OverwrittenSets(s, set) ==
    Append(IF Len(s) = 0 THEN s ELSE Front(s), set)

----------------------------------------------------------------------------
(* The history file *)

Absent == [tag |-> "Absent"]
FileWith(bytes) == [tag |-> "File", bytes |-> bytes]

\* the contents of the file File::create makes: no bytes at all
NoBytes == [tag |-> "Empty"]

\* NaiveDate as serde writes it, "%Y-%m-%d"; day 1 is the first of January
format_date(d) ==
    CASE d = 0 -> "2023-12-31"
      [] d = 1 -> "2024-01-01"
      [] d = 2 -> "2024-01-02"
      [] d = 3 -> "2024-01-03"

\* NaiveDate as serde reads it
parse_date(text) == CHOOSE d \in DateArgs : format_date(d) = text

\* DateInterval is written externally tagged: {"InProgress":{"start":...}}
IntervalToJson(interval) ==
    CASE interval.tag = "InProgress" ->
             [InProgress |-> [start |-> format_date(interval.start)]]
      [] interval.tag = "Complete" ->
             [Complete |-> [start |-> format_date(interval.start),
                            end |-> format_date(interval.end)]]

\* a reader that takes every interval for an open one
IntervalFromJson_AlwaysOpen(v) ==
    IF "InProgress" \in DOMAIN v
    THEN InProgress(parse_date(v.InProgress.start))
    ELSE InProgress(parse_date(v.Complete.start))

IntervalFromJson(v) ==
    IF "InProgress" \in DOMAIN v
    THEN InProgress(parse_date(v.InProgress.start))
    ELSE Complete(parse_date(v.Complete.start), parse_date(v.Complete.end))

\* a Jot is written {"value":...,"state":...}, the state by its variant name
JotToJson(jot) == [value |-> jot.value, state |-> jot.state]
JotFromJson(v) == [value |-> v.value, state |-> v.state]

JotSetToJson(set) ==
    [jots |-> [k \in 1..Len(set.jots) |-> JotToJson(set.jots[k])],
     interval |-> IntervalToJson(set.interval)]

JotSetFromJson(v) ==
    JotSet([k \in 1..Len(v.jots) |-> JotFromJson(v.jots[k])],
           IntervalFromJson(v.interval))

\* serde_json::to_vec of a JotHistory: {"sets":[...]}
to_vec(history) ==
    [tag |-> "Json",
     value |-> [sets |-> [i \in 1..Len(history) |-> JotSetToJson(history[i])]]]

\* serde_json::from_slice: no bytes are no JSON value (EOF while parsing)
from_slice(bytes) ==
    IF bytes.tag = "Empty"
    THEN Err("MalformedConfig")
    ELSE Ok([i \in 1..Len(bytes.value.sets) |-> JotSetFromJson(bytes.value.sets[i])])

\* load_from_file_or_create: the history or the error, and the file it leaves;
\* `today` is the day JotSet::default() reads, Some only when it is called
load_from_file_or_create(f, today) ==
    IF f.tag = "File"
    THEN [result |-> from_slice(f.bytes), file |-> f]
    ELSE [result |-> Ok(<<DefaultJotSet(today.val)>>), file |-> FileWith(NoBytes)]

\* save: the file, which exists, is truncated and the bytes are written
save(history, f) == FileWith(to_vec(history))

----------------------------------------------------------------------------
(* Operations *)

\* the number of jots a history holds, over all its sets
RECURSIVE JotCount(_)
JotCount(s) == IF Len(s) = 0 THEN 0 ELSE Len(s[1].jots) + JotCount(Tail(s))

\* the histories the model explores
Bounded(s) == Len(s) <= MaxSets /\ Len(s) + JotCount(s) <= MaxSize

Init ==
    /\ \E today \in Dates : sets = <<DefaultJotSet(today)>>
    /\ panicked = FALSE
    /\ op = [name |-> "create"]
    /\ file = FileWith(NoBytes)

\* JotHistory::roll, called on a day `now`
roll(now) ==
    /\ ~panicked
    /\ IF Len(sets) = 0
       THEN /\ panicked' = TRUE
            /\ sets' = sets
       ELSE /\ Bounded(RolledSets(sets, now))
            /\ sets' = RolledSets(sets, now)
            /\ panicked' = FALSE
    /\ op' = [name |-> "roll", now |-> now]
    /\ UNCHANGED file

\* JotHistory::insert
insert(jot) ==
    /\ ~panicked
    /\ IF Len(sets) = 0
       THEN /\ panicked' = TRUE
            /\ sets' = sets
       ELSE /\ Bounded(InsertedSets(sets, jot))
            /\ sets' = InsertedSets(sets, jot)
            /\ panicked' = FALSE
    /\ op' = [name |-> "insert", jot |-> jot]
    /\ UNCHANGED file

\* JotHistory::set_jot: the last set is popped before the index is used
set_jot(jot, index) ==
    /\ ~panicked
    /\ IF Len(sets) = 0
       THEN /\ panicked' = TRUE
            /\ sets' = sets
       ELSE IF index >= Len(Last(sets).jots)
       THEN /\ panicked' = TRUE
            /\ sets' = Front(sets)
       ELSE /\ sets' = ReplacedSets(sets, jot, index)
            /\ panicked' = FALSE
    /\ op' = [name |-> "set_jot", jot |-> jot, index |-> index]
    /\ UNCHANGED file

\* JotHistory::set
set(newset) ==
    /\ ~panicked
    /\ Bounded(OverwrittenSets(sets, newset))
    /\ sets' = OverwrittenSets(sets, newset)
    /\ op' = [name |-> "set", set |-> newset]
    /\ UNCHANGED <<panicked, file>>

\* view (the command), the one command main runs on the history it loaded:
\* get_with_date or get, then filter_by_states; `shown` is the JotSet handed
\* to println!, None when "No jotset found for date" is printed instead
view(date, states) ==
    /\ ~panicked
    /\ op.name = "load"
    /\ IF date.tag = "Some"
       THEN LET found == get_with_date(sets, date.val)
            IN  /\ op' = [name |-> "view", date |-> date, states |-> states,
                          found |-> found,
                          shown |-> IF found.tag = "None"
                                    THEN None
                                    ELSE Some(filter_by_states(found.val, states))]
                /\ panicked' = FALSE
       ELSE IF Len(sets) = 0
       THEN /\ panicked' = TRUE
            /\ op' = [name |-> "view", date |-> date, states |-> states]
       ELSE /\ op' = [name |-> "view", date |-> date, states |-> states,
                      shown |-> Some(filter_by_states(get(sets), states))]
            /\ panicked' = FALSE
    /\ UNCHANGED <<sets, file>>

\* the indices set_jot is called with: the positions of the current set's
\* jots and the first index past them
Indices == 0..(IF Len(sets) = 0 THEN 0 ELSE Len(Last(sets).jots))

Next ==
    \/ \E now \in Dates : roll(now)
    \/ \E jot \in JotArgs : insert(jot)
    \/ \E jot \in JotArgs, index \in Indices : set_jot(jot, index)
    \/ \E newset \in ArgSets : set(newset)

Spec == Init /\ [][Next]_vars

----------------------------------------------------------------------------
(* The history as the commands change it: roll, insert and set_jot; no       *)
(* command calls set().                                                     *)

NextNoSet ==
    \/ \E now \in DateArgs : roll(now)
    \/ \E jot \in JotArgs : insert(jot)
    \/ \E jot \in JotArgs, index \in Indices : set_jot(jot, index)

InitNoSet ==
    /\ \E today \in DateArgs : sets = <<DefaultJotSet(today)>>
    /\ panicked = FALSE
    /\ op = [name |-> "create"]
    /\ file = FileWith(NoBytes)

SpecNoSet == InitNoSet /\ [][NextNoSet]_vars

\* the same with a clock that never goes back: when set() is not called the
\* start of the last interval is the day the clock gave last
LastRead == Last(sets).interval.start

NextMonotone ==
    \/ \E now \in DateArgs : ~panicked /\ now >= LastRead /\ roll(now)
    \/ \E jot \in JotArgs : insert(jot)
    \/ \E jot \in JotArgs, index \in Indices : set_jot(jot, index)

SpecMonotone == InitNoSet /\ [][NextMonotone]_vars

----------------------------------------------------------------------------
(* view --date on a history read from the file *)

\* serde_json::from_slice accepts any sets the file holds
InitFind ==
    /\ \E n \in 1..MaxSets : sets \in [1..n -> ArgSets]
    /\ panicked = FALSE
    /\ op = [name |-> "load"]
    /\ file = FileWith(to_vec(sets))

NextFind == \E date \in DateArgs : view(Some(date), <<>>)

SpecFind == InitFind /\ [][NextFind]_vars

----------------------------------------------------------------------------
(* view --states on the current set of a history read from the file *)

InitFilter ==
    /\ \E js \in SeqUpTo(FileJots, MaxFilterJots), iv \in DateInterval :
            sets = <<JotSet(js, iv)>>
    /\ panicked = FALSE
    /\ op = [name |-> "load"]
    /\ file = FileWith(to_vec(sets))

NextFilter == \E states \in SeqUpTo(JotState, MaxFilterStates) : view(None, states)

SpecFilter == InitFilter /\ [][NextFilter]_vars

----------------------------------------------------------------------------
(* The runs of the program: main loads the history, runs one command and     *)
(* saves the history when the command returned Ok.  An Err that `?` passes   *)
(* on ends the run before save; the failure of the load is a panic (expect). *)
(* Failures of the disk itself are not modelled.                             *)

\* the commands a run is started with
View(date, states) == [name |-> "View", date |-> date, states |-> states]
ViewHistory == [name |-> "ViewHistory"]
New(args) == [name |-> "New", args |-> args]
Update(args) == [name |-> "Update", args |-> args]
Delete == [name |-> "Delete"]
Roll == [name |-> "Roll"]

\* --jot and --state of new and update
NewArgs == [jot : {None, Some("a")}, state : {None, Some("Completed")}]

\* --date of view
ViewDates == {None} \cup {Some(d) : d \in DateArgs}

\* what the user does at a prompt: Esc or Ctrl-C at a prompt() is an Err
Canceled == Err("OperationCanceled")
\* the text typed at a Text prompt
TextAnswers == {Ok("a"), Canceled}
\* the state picked at prompt_skippable(), None when the prompt is skipped
StateAnswers == {Ok(Some("Completed")), Ok(None), Canceled}
\* the position of the option picked at a Select prompt of n options
SelectAnswers(n) == {Ok(p) : p \in 1..n} \cup {Canceled}

\* the answers to a prompt that is shown only without the argument: None,
\* no answer, when it is not shown
Asked(arg, answers) == IF arg.tag = "Some" THEN {None} ELSE answers

\* what a run reads from the clock and from the user; None where it reads
\* nothing
NoInput == [today |-> None, now |-> None, select |-> None, text |-> None, state |-> None]

\* Select::prompt: Err without options, else the option picked or the Err
SelectPrompt(options, answer) ==
    IF Len(options) = 0 THEN Err("InvalidConfiguration")
    ELSE IF answer.tag = "Err" THEN answer
    ELSE Ok(options[answer.val])

\* prompt_state: a skipped prompt is NotStarted
prompt_state(answer) ==
    IF answer.tag = "Err" THEN answer
    ELSE Ok(IF answer.val.tag = "Some" THEN answer.val.val ELSE "NotStarted")

\* the pattern of matches!(interval, selected_interval): an identifier, which
\* binds whatever value it is matched against
matches(interval, selected_interval) == TRUE

\* a scan that returns the index of the last element the closure holds of
find_enumerate_Last(holds) ==
    (CHOOSE i \in 1..Len(holds) : holds[i] /\ \A k \in (i + 1)..Len(holds) : ~holds[k]) - 1

\* iter().enumerate().find(..).unwrap(): the index of the first element the
\* closure holds of, `holds` being what the closure returns for each element
find_enumerate(holds) ==
    (CHOOSE i \in 1..Len(holds) : holds[i] /\ \A k \in 1..(i - 1) : ~holds[k]) - 1

\* what a command returns: its Result, the history it leaves and what it did
Returned(result, history, detail) ==
    [result |-> result, history |-> history, detail |-> detail]

\* new (the command)
new(history, args, inputs) ==
    LET message == IF args.jot.tag = "Some" THEN Ok(args.jot.val) ELSE inputs.text
        state == IF args.state.tag = "Some"
                 THEN Ok(args.state.val)
                 ELSE prompt_state(inputs.state)
    IN  IF message.tag = "Err" THEN Returned(message, history, [at |-> "jot"])
        ELSE IF state.tag = "Err" THEN Returned(state, history, [at |-> "state"])
        ELSE LET jot == [value |-> message.val, state |-> state.val]
             IN  Returned(Ok(<<>>), InsertedSets(history, jot), [jot |-> jot])

\* update (the command)
update(history, args, inputs) ==
    LET current == get(history)
        selected == SelectPrompt(current.jots, inputs.select)
    IN  IF selected.tag = "Err" THEN Returned(selected, history, [at |-> "select"])
        ELSE
        LET selected_jot == selected.val
            selected_index == find_enumerate([k \in 1..Len(current.jots) |->
                                                 current.jots[k] = selected_jot])
            new_message == IF args.jot.tag = "Some"
                           THEN Ok(args.jot.val)
                           ELSE inputs.text
            new_state == IF args.state.tag = "Some"
                         THEN Ok(args.state.val)
                         ELSE prompt_state(inputs.state)
        IN  IF new_message.tag = "Err"
            THEN Returned(new_message, history, [at |-> "jot"])
            ELSE IF new_state.tag = "Err"
            THEN Returned(new_state, history, [at |-> "state"])
            ELSE LET new_jot == [value |-> new_message.val, state |-> new_state.val]
                 IN  Returned(Ok(<<>>), ReplacedSets(history, new_jot, selected_index),
                              [picked |-> inputs.select.val,
                               selected_index |-> selected_index,
                               jot |-> new_jot])

\* view_history: `shown` is the set handed to println!
view_history(history, inputs) ==
    LET intervals == get_date_intervals(history)
        selected == SelectPrompt(intervals, inputs.select)
    IN  IF selected.tag = "Err" THEN Returned(selected, history, [at |-> "select"])
        ELSE
        LET selected_interval == selected.val
            set_index == find_enumerate([k \in 1..Len(intervals) |->
                                            matches(intervals[k], selected_interval)])
        IN  Returned(Ok(<<>>), history,
                     [picked |-> inputs.select.val, shown |-> history[set_index + 1]])

\* the match of main on the command
Commands(history, cmd, inputs) ==
    CASE cmd.name = "View" ->
             Returned(Ok(<<>>), history,
                 [date |-> cmd.date,
                  found |-> IF cmd.date.tag = "Some"
                            THEN get_with_date(history, cmd.date.val)
                            ELSE Some(get(history))])
      [] cmd.name = "ViewHistory" -> view_history(history, inputs)
      [] cmd.name = "New" -> new(history, cmd.args, inputs)
      [] cmd.name = "Update" -> update(history, cmd.args, inputs)
      [] cmd.name = "Delete" -> Returned(Ok(<<>>), history, [now |-> None])
      [] cmd.name = "Roll" ->
             Returned(Ok(<<>>), RolledSets(history, inputs.now.val),
                      [now |-> inputs.now.val])

\* one run of the program.  `sets` is the history in memory when the run
\* ends, `panicked` whether it ended in a panic
main(cmd, inputs) ==
    \E load \in {load_from_file_or_create(file, inputs.today)} :
        IF load.result.tag = "Err"
        THEN /\ panicked' = TRUE
             /\ sets' = <<>>
             /\ file' = load.file
             /\ op' = [name |-> cmd.name, outcome |-> "LoadFailed"]
        ELSE \E history \in {load.result.val} :
             \E run \in {Commands(history, cmd, inputs)} :
                 /\ Bounded(run.history)
                 /\ panicked' = FALSE
                 /\ sets' = run.history
                 /\ file' = IF run.result.tag = "Ok"
                            THEN save(run.history, load.file)
                            ELSE load.file
                 /\ op' = [name |-> cmd.name,
                           outcome |-> IF run.result.tag = "Ok"
                                       THEN "Saved"
                                       ELSE run.result.err,
                           created |-> file.tag = "Absent",
                           today |-> inputs.today,
                           loaded |-> history,
                           detail |-> run.detail]

\* the clock is read by JotSet::default() only, when there is no file
Today == IF file.tag = "Absent" THEN {Some(d) : d \in Dates} ELSE {None}

\* the numbers of options the Select prompts of the next run offer: the sets
\* of the history on disk and the jots of its last set
Offered ==
    IF file.tag = "Absent" THEN [sets |-> 1, jots |-> 0]
    ELSE LET read == from_slice(file.bytes)
         IN  IF read.tag = "Err" THEN [sets |-> 0, jots |-> 0]
             ELSE [sets |-> Len(read.val), jots |-> Len(Last(read.val).jots)]

InitMain ==
    /\ sets = <<>>
    /\ panicked = FALSE
    /\ op = [name |-> "none", outcome |-> "none"]
    /\ file = Absent

NextMain ==
    \/ \E today \in Today, date \in ViewDates :
           main(View(date, <<>>), [NoInput EXCEPT !.today = today])
    \/ \E today \in Today, select \in SelectAnswers(Offered.sets) :
           main(ViewHistory, [NoInput EXCEPT !.today = today, !.select = select])
    \/ \E today \in Today, args \in NewArgs :
           \E text \in Asked(args.jot, TextAnswers),
              state \in Asked(args.state, StateAnswers) :
               main(New(args), [NoInput EXCEPT !.today = today, !.text = text,
                                               !.state = state])
    \/ \E today \in Today, args \in NewArgs, select \in SelectAnswers(Offered.jots) :
           \E text \in Asked(args.jot, TextAnswers),
              state \in Asked(args.state, StateAnswers) :
               main(Update(args), [NoInput EXCEPT !.today = today, !.select = select,
                                                  !.text = text, !.state = state])
    \/ \E today \in Today : main(Delete, [NoInput EXCEPT !.today = today])
    \/ \E today \in Today, now \in Dates :
           main(Roll, [NoInput EXCEPT !.today = today, !.now = Some(now)])

SpecMain == InitMain /\ [][NextMain]_vars

----------------------------------------------------------------------------
(* Properties *)

TerminalStates == {"Completed", "Removed", "Failed"}

\* date d lies in the interval iv
DateIn(iv, d) ==
    IF iv.tag = "InProgress" THEN d >= iv.start ELSE iv.start <= d /\ d <= iv.end

\* after holds exactly the elements of before that Keep holds of, in the
\* order and with the multiplicity they have in before
IsSubsequenceKeeping(after, before, Keep(_)) ==
    LET kept == {i \in 1..Len(before) : Keep(before[i])}
        rank(i) == Cardinality({k \in kept : k <= i})
    IN  /\ Len(after) = Cardinality(kept)
        /\ \A i \in kept : after[rank(i)] = before[i]

\* the step is a call of the named method that did not panic
Called(name) == op'.name = name /\ ~panicked /\ ~panicked'

\* C1: in every history reached from a fresh one by insert, set_jot with a
\* valid index, set and roll, sets is non-empty and every set but the last has
\* a Complete interval, so that get() succeeds; the only panic there is, is
\* that of set_jot with an index out of bounds.
C1_NonEmptyOnlyLastOpen ==
    IF panicked
    THEN op.name = "set_jot"
    ELSE /\ Len(sets) >= 1
         /\ \A i \in 1..(Len(sets) - 1) : sets[i].interval.tag = "Complete"

\* a third set was rolled after set() made the current set Complete, and the
\* current set was then written to
C1_Witness ==
    /\ ~panicked
    /\ op.name = "set_jot"
    /\ Len(sets) = 3
    /\ Last(sets).interval.tag = "Complete"
    /\ Len(Last(sets).jots) >= 1

\* C2: roll() makes sets one longer and the new last set InProgress from the
\* day it read, whether the current set was InProgress or Complete before.
C2_RollAddsOneOpenSet ==
    [][Called("roll") =>
        /\ Len(sets') = Len(sets) + 1
        /\ Last(sets').interval = InProgress(op'.now)]_vars

\* a roll of a current set that was Complete already: its end is not the day
\* of the roll
C2_Witness ==
    /\ op.name = "roll"
    /\ Len(sets) >= 2
    /\ sets[Len(sets) - 1].interval.end # op.now
    /\ Last(sets).interval = InProgress(op.now)

C4_RollArchivesInPlace ==
    [][Called("roll") =>
        LET n == Len(sets)
            before == sets[n]
        IN  /\ Len(sets') > n
            /\ sets'[n].jots = before.jots
            /\ sets'[n].interval =
                   IF before.interval.tag = "InProgress"
                   THEN Complete(before.interval.start, op'.now)
                   ELSE before.interval
            /\ \A i \in 1..(n - 1) : sets'[i] = sets[i]]_vars

\* a roll of a history of two sets with jots, the second closed by this roll
C4_Witness ==
    /\ op.name = "roll"
    /\ Len(sets) = 3
    /\ sets[1].jots # <<>>
    /\ \E k \in 1..Len(sets[2].jots) : sets[2].jots[k].state \in TerminalStates
    /\ sets[2].interval = Complete(sets[2].interval.start, op.now)

\* C5: set_jot with an index that is no position of the current set's jots
\* reports an error without panicking and leaves the history as it was.
C5_OutOfBoundsIsReported ==
    [][(/\ op'.name = "set_jot"
        /\ ~panicked
        /\ Len(sets) >= 1
        /\ op'.index >= Len(Last(sets).jots))
       => (~panicked' /\ sets' = sets)]_vars

\* C6: get_with_date(d) returns the first set in stored order whose interval
\* contains d, None exactly when no interval contains d (so when d is before
\* every start), and leaves the history as it was.
C6_FindsFirstContaining ==
    [][(Called("view") /\ op'.date.tag = "Some") =>
        LET d == op'.date.val
            hits == {i \in 1..Len(sets) : DateIn(sets[i].interval, d)}
            first == CHOOSE i \in hits : \A k \in hits : i <= k
        IN  /\ sets' = sets
            /\ (op'.found = None) <=> (hits = {})
            /\ hits # {} => op'.found = Some(sets[first])
            /\ (\A i \in 1..Len(sets) : d < sets[i].interval.start)
                  => op'.found = None]_vars

\* the date is outside the first set and inside the two after it, which
\* differ; the second set is returned
C6_Witness ==
    /\ op.name = "view"
    /\ op.date.tag = "Some"
    /\ Len(sets) = 3
    /\ ~DateIn(sets[1].interval, op.date.val)
    /\ DateIn(sets[2].interval, op.date.val)
    /\ DateIn(sets[3].interval, op.date.val)
    /\ sets[2] # sets[3]
    /\ op.found = Some(sets[2])

\* C7: filter_by_states with no states returns a set with the jots and the
\* interval of the original.
C7_EmptyFilterIsIdentity ==
    (/\ op.name = "view"
     /\ ~panicked
     /\ op.date = None
     /\ Len(op.states) = 0)
    => /\ op.shown.tag = "Some"
       /\ op.shown.val.jots = Last(sets).jots
       /\ op.shown.val.interval = Last(sets).interval

\* three jots, terminal and not, shown unfiltered
C7_Witness ==
    /\ op.name = "view"
    /\ op.date = None
    /\ Len(op.states) = 0
    /\ Len(Last(sets).jots) = 3
    /\ Last(sets).jots[1].state \in TerminalStates
    /\ Last(sets).jots[2].state \notin TerminalStates
    /\ Len(op.shown.val.jots) = 3

\* C8: filter_by_states with states S, not empty, returns a set with the same
\* interval whose jots are the jots of the original with a state in S, in
\* order and as many times; the original is left as it was.
C8_FilterKeepsMatching ==
    [][(Called("view") /\ op'.date = None /\ Len(op'.states) > 0) =>
        LET S == {op'.states[i] : i \in 1..Len(op'.states)}
            InS(j) == j.state \in S
        IN  /\ sets' = sets
            /\ op'.shown.tag = "Some"
            /\ op'.shown.val.interval = Last(sets).interval
            /\ IsSubsequenceKeeping(op'.shown.val.jots, Last(sets).jots, InS)]_vars

\* two different states asked for; the first and third jot are equal and
\* match the second state, the jot between them matches neither
C8_Witness ==
    /\ op.name = "view"
    /\ op.date = None
    /\ Len(op.states) = 2
    /\ op.states[1] # op.states[2]
    /\ LET jots == Last(sets).jots
       IN  /\ Len(jots) = 3
           /\ jots[1] = jots[3]
           /\ jots[1].state = op.states[2]
           /\ jots[2].state \notin {op.states[1], op.states[2]}
           /\ op.shown.val.jots = <<jots[1], jots[3]>>

\* C9: insert(jot) makes jot the last jot of the last set, one jot more than
\* before with the earlier ones in place, and changes neither the interval of
\* that set, nor the number of sets, nor an earlier set.
C9_InsertAppendsToCurrent ==
    [][Called("insert") =>
        LET n == Len(sets)
            before == sets[n].jots
            after == sets'[n].jots
        IN  /\ Len(sets') = n
            /\ Len(after) = Len(before) + 1
            /\ after[Len(after)] = op'.jot
            /\ \A k \in 1..Len(before) : after[k] = before[k]
            /\ sets'[n].interval = sets[n].interval
            /\ \A i \in 1..(n - 1) : sets'[i] = sets[i]]_vars

\* a jot inserted after a different one, in a history of several sets
C9_Witness ==
    /\ op.name = "insert"
    /\ ~panicked
    /\ Len(sets) >= 2
    /\ Len(Last(sets).jots) = 2
    /\ Last(sets).jots[2] = op.jot
    /\ Last(sets).jots[1] # op.jot

\* C10: set_jot(jot, index) with a valid index makes the jot at index equal
\* jot and changes nothing else: the other jots, their number, the interval
\* of the current set, the number of sets and the earlier sets.
C10_SetJotReplacesOne ==
    [][(Called("set_jot") /\ op'.index < Len(Last(sets).jots)) =>
        LET n == Len(sets)
            before == sets[n].jots
            after == sets'[n].jots
        IN  /\ Len(sets') = n
            /\ Len(after) = Len(before)
            /\ after[op'.index + 1] = op'.jot
            /\ \A k \in 1..Len(before) : k # op'.index + 1 => after[k] = before[k]
            /\ sets'[n].interval = sets[n].interval
            /\ \A i \in 1..(n - 1) : sets'[i] = sets[i]]_vars

\* the second of two jots replaced by a jot the first does not equal, in a
\* history of several sets with jots
C10_Witness ==
    /\ op.name = "set_jot"
    /\ ~panicked
    /\ Len(sets) >= 2
    /\ sets[1].jots # <<>>
    /\ op.index = 1
    /\ Len(Last(sets).jots) = 2
    /\ Last(sets).jots[2] = op.jot
    /\ Last(sets).jots[1] # op.jot

\* C11: set(set) on a history that is not empty makes the last set equal set,
\* jots and interval, and leaves the number of sets and the earlier sets as
\* they were.
C11_SetReplacesLast ==
    [][(Called("set") /\ Len(sets) >= 1) =>
        LET n == Len(sets)
        IN  /\ Len(sets') = n
            /\ sets'[n].jots = op'.set.jots
            /\ sets'[n].interval = op'.set.interval
            /\ \A i \in 1..(n - 1) : sets'[i] = sets[i]]_vars

\* the third set of a history replaced by a Complete set holding a jot, the
\* set before it holding a jot too
C11_Witness ==
    /\ op.name = "set"
    /\ Len(sets) = 3
    /\ sets[2].jots # <<>>
    /\ Last(sets) = op.set
    /\ op.set.jots = <<OtherJot>>
    /\ op.set.interval.tag = "Complete"

\* C12: view-history prints the set whose interval the user picked: with
\* several sets and whichever interval is picked, the set printed is the set
\* at the position of that interval in get_date_intervals().
C12_ShowsPickedSet ==
    (op.name = "ViewHistory" /\ op.outcome = "Saved")
    => op.detail.shown = op.loaded[op.detail.picked]

\* two results of a load are the same: both the same history or both an Err
SameResult(a, b) == a.tag = b.tag /\ (a.tag = "Ok" => a.val = b.val)

\* C13: when the user cancels a prompt of new or update, nothing has been
\* inserted or replaced in the history, nothing is saved, and the history
\* the next run would load is the history this run would have loaded.
C13_CancelLeavesPersisted ==
    [][(op'.name \in {"New", "Update"} /\ op'.outcome = "OperationCanceled")
       => /\ sets' = op'.loaded
          /\ \A today \in Dates :
                 SameResult(load_from_file_or_create(file', Some(today)).result,
                            load_from_file_or_create(file, Some(today)).result)]_vars

\* the history a run that began without a file holds when its command is done
AfterFirstCommand ==
    LET today == op.today.val
    IN  CASE op.name = "New" -> <<JotSet(<<op.detail.jot>>, InProgress(today))>>
          [] op.name = "Roll" ->
                 <<JotSet(<<>>, Complete(today, op.detail.now)),
                   JotSet(<<>>, InProgress(op.detail.now))>>
          [] OTHER -> <<JotSet(<<>>, InProgress(today))>>

\* C14: a run that starts without the file works on a history of one set, no
\* jots, InProgress{today}; when its command completes, the file is there and
\* holds that history as the command changed it, and the next run loads a
\* history equal to it.
C14_FirstRunRoundTrip ==
    /\ [](( op.outcome = "Saved" /\ op.created)
            => /\ op.loaded = <<JotSet(<<>>, InProgress(op.today.val))>>
               /\ sets = AfterFirstCommand
               /\ file.tag = "File"
               /\ file.bytes.tag = "Json")
    /\ [][(op.outcome = "Saved" /\ op.created)
            => /\ op'.outcome # "LoadFailed"
               /\ op'.loaded = sets]_vars

\* a first run that rolled: the saved history holds a Complete and an
\* InProgress interval of different days
C14_Witness ==
    /\ op.outcome = "Saved"
    /\ op.created
    /\ op.name = "Roll"
    /\ Len(sets) = 2
    /\ sets[1].interval = Complete(op.today.val, op.detail.now)
    /\ op.today.val # op.detail.now
    /\ file.tag = "File"

\* C15: update replaces the jot at the first position of the current set
\* whose jot equals, text and state, the jot the user picked; with
\* duplicates of the picked jot only the first is overwritten and the later
\* ones, like every other jot, stay as they were.
C15_UpdateReplacesFirstEqual ==
    (op.name = "Update" /\ op.outcome = "Saved")
    => LET n == Len(op.loaded)
           before == op.loaded[n].jots
           picked == before[op.detail.picked]
           first == CHOOSE k \in 1..Len(before) :
                        before[k] = picked /\ \A m \in 1..(k - 1) : before[m] # picked
       IN  /\ Len(sets) = n
           /\ Len(sets[n].jots) = Len(before)
           /\ sets[n].jots[first] = op.detail.jot
           /\ \A k \in 1..Len(before) : k # first => sets[n].jots[k] = before[k]
           /\ sets[n].interval = op.loaded[n].interval
           /\ \A i \in 1..(n - 1) : sets[i] = op.loaded[i]

\* the second of two equal jots was picked and given another state: the first
\* holds the new jot, the second is as it was
C15_Witness ==
    /\ op.name = "Update"
    /\ op.outcome = "Saved"
    /\ op.detail.picked = 2
    /\ LET before == Last(op.loaded).jots
       IN  /\ Len(before) = 2
           /\ before[1] = before[2]
           /\ op.detail.jot # before[1]
           /\ Last(sets).jots = <<op.detail.jot, before[2]>>

\* C16: in every history reached from a fresh one by insert, set_jot and
\* roll with a clock that never goes back, the sets are in ascending order of
\* the start of their interval and every Complete interval ends on or after
\* the day it starts.
C16_SortedByStart ==
    /\ \A i \in 1..(Len(sets) - 1) :
           sets[i].interval.start <= sets[i + 1].interval.start
    /\ \A i \in 1..Len(sets) :
           sets[i].interval.tag = "Complete"
               => sets[i].interval.end >= sets[i].interval.start

\* three sets opened on three different days, the first two holding jots
C16_Witness ==
    /\ op.name = "roll"
    /\ Len(sets) = 3
    /\ sets[1].interval.start < sets[2].interval.start
    /\ sets[2].interval.start < sets[3].interval.start
    /\ sets[1].jots # <<>>
    /\ sets[2].jots # <<>>

\* C17: in every history reached from a fresh one by insert, set_jot and
\* roll, whatever days the clock gives, every set below the last is Complete
\* and the set after it starts on the day it ends.
C17_Contiguous ==
    \A i \in 1..(Len(sets) - 1) :
        /\ sets[i].interval.tag = "Complete"
        /\ sets[i + 1].interval.start = sets[i].interval.end

\* three sets, rolled by a clock that went back each time
C17_Witness ==
    /\ op.name = "roll"
    /\ Len(sets) = 3
    /\ sets[1].interval.end < sets[1].interval.start
    /\ sets[2].interval.end < sets[2].interval.start
    /\ Last(sets).interval = InProgress(sets[2].interval.end)

\* C18: on a history whose last two sets are as roll() on day T leaves them,
\* Complete{start, end: T} with start <= T and InProgress{start: T},
\* get_with_date(T) returns one of the archived sets, which is Complete, and
\* never the current set: the jots put into the current set on day T are not
\* what view --date T shows.
C18_RollDayFindsArchived ==
    (/\ op.name = "View"
     /\ op.outcome = "Saved"
     /\ op.detail.date.tag = "Some"
     /\ Len(op.loaded) >= 2
     /\ LET n == Len(op.loaded)
            T == op.detail.date.val
        IN  /\ op.loaded[n].interval = InProgress(T)
            /\ op.loaded[n - 1].interval.tag = "Complete"
            /\ op.loaded[n - 1].interval.end = T
            /\ op.loaded[n - 1].interval.start <= T)
    => /\ op.detail.found.tag = "Some"
       /\ op.detail.found.val.interval.tag = "Complete"
       /\ \E i \in 1..(Len(op.loaded) - 1) : op.detail.found.val = op.loaded[i]

\* a jot was put into the current set after the roll; view --date of the day
\* of the roll finds the set the roll closed, which does not hold it
C18_Witness ==
    /\ op.name = "View"
    /\ op.outcome = "Saved"
    /\ op.detail.date.tag = "Some"
    /\ Len(op.loaded) = 2
    /\ op.loaded[2].interval = InProgress(op.detail.date.val)
    /\ op.loaded[1].interval.tag = "Complete"
    /\ op.loaded[1].interval.end = op.detail.date.val
    /\ op.loaded[1].interval.start < op.detail.date.val
    /\ op.loaded[2].jots = <<[value |-> "a", state |-> "NotStarted"]>>
    /\ op.loaded[1].jots = <<[value |-> "a", state |-> "Completed"]>>
    /\ op.detail.found = Some(op.loaded[1])

\* C19: after any run, its command completed or cancelled at a prompt, the
\* file there at its start or not, the next load_from_file_or_create returns
\* a history.
C19_FileStaysLoadable ==
    op.name # "none"
    => \A today \in Dates :
           load_from_file_or_create(file, Some(today)).result.tag = "Ok"

====
